---- MODULE Spec2Model ----
(***************************************************************************)
(* Model of sagemaker_tensorflow_container/training.py: the TF_CONFIG      *)
(* resolver (_build_tf_config), the dispatcher (train) run by every host   *)
(* of one training job, and the liveness poller                            *)
(* (_wait_until_master_is_down).                                           *)
(***************************************************************************)
EXTENDS Integers, Sequences, FiniteSets, TLC

\* ------------------------------------------------------------------------
\* Bounds of the model.
MaxHosts == 3       \* longest host list
MaxPsNum == 3       \* largest sagemaker_parameter_server_num
MaxProbes == 2      \* most successful probes one poller sees

\* ------------------------------------------------------------------------
\* Program constants.
MasterPort == 2222      \* host_addresses default port, and the curl target
PsPort == 2223          \* port of the parameter servers
SleepSeconds == 10      \* time.sleep(10) between two probes

AllNames == <<"a", "b", "c", "d", "e">>
HostNames == {AllNames[i] : i \in 1..MaxHosts}
\* a host name that is in no host list
Stranger == "zz"

Range(s) == {s[i] : i \in 1..Len(s)}

\* env.hosts: non-empty lists of unique host names
HostLists ==
    {s \in UNION {[1..n -> HostNames] : n \in 1..MaxHosts} :
        \A i, j \in 1..Len(s) : i # j => s[i] # s[j]}

\* env.hosts of a job.  Host names are interchangeable in train, so the
\* lists of a job are taken up to renaming: each list is a run of
\* consecutive names, started at any name and wrapping around.
JobHostLists ==
    {s \in HostLists :
        \E k \in 1..MaxHosts :
            \A i \in 1..Len(s) : s[i] = AllNames[((k + i - 2) % MaxHosts) + 1]}

VARIABLES
    hosts,                  \* env.hosts, the same list object on every call
    parameter_server_num,   \* additional_framework_parameters[...]
    pc,                     \* per host: where train is
    log,                    \* per host: calls train made to the runtime
    history                 \* the first and the latest call of _build_tf_config
                            \* made on its own: arguments and result

vars == <<hosts, parameter_server_num, pc, log, history>>

\* ------------------------------------------------------------------------
\* Python list helpers.

\* s[:n] for n >= 0: the slice is bounded by the length of the list
SliceTo(s, n) == SubSeq(s, 1, IF n < Len(s) THEN n ELSE Len(s))

\* s[1:]
SliceFrom1(s) == SubSeq(s, 2, Len(s))

\* x in s
Contains(s, x) == \E i \in 1..Len(s) : s[i] = x

\* s.index(x): 0-based position of the first x; only defined when x in s
ListIndex(s, x) == (CHOOSE i \in 1..Len(s) :
                        s[i] = x /\ \A j \in 1..(i - 1) : s[j] # x) - 1

EmptyDict == [k \in {} |-> <<>>]

\* ------------------------------------------------------------------------
\* _is_host_master
_is_host_master(hs, current_host) == current_host = hs[1]

\* host_addresses: '{}:{}'.format(host, port) for each host, in order.
\* The formatted string is kept as the pair <<host, port>>.
host_addresses(hs, port) == [i \in 1..Len(hs) |-> <<hs[i], port>>]

\* The two errors _build_tf_config raises.
NoPsError == "ValueError: Can not have a ps task if there are no parameter servers in the cluster"
NotInListError == "ValueError: current_host is not in list"
NoError == "none"

Raise(e) == [error |-> e, tf_config |-> EmptyDict]
Return(c) == [error |-> NoError, tf_config |-> c]

\* variant: a ps_num larger than the host list gives no parameter servers
PsIsNoneWhenTooMany(hs, ps_num) ==
    ~(Len(hs) > 1 /\ ps_num > 0 /\ ps_num <= Len(hs))

\* variant: the parameter-server group no longer depends on the host count
PsIsNoneIgnoringHostCount(hs, ps_num) == ~(ps_num > 0)

\* ps is None
PsIsNone(hs, ps_num) == ~(Len(hs) > 1 /\ ps_num > 0)

\* variant: the worker list is the whole host list, master included
ClusterWorkersIncludeMaster(hs, ps_num) ==
    LET masters == SliceTo(hs, 1)
        workers == hs
        ps == IF PsIsNone(hs, ps_num) THEN <<>> ELSE SliceTo(hs, ps_num)
    IN  ("master" :> host_addresses(masters, MasterPort))
        @@ (IF ~PsIsNone(hs, ps_num) /\ Len(ps) > 0
              THEN "ps" :> host_addresses(ps, PsPort) ELSE EmptyDict)
        @@ (IF Len(workers) > 0
              THEN "worker" :> host_addresses(workers, MasterPort) ELSE EmptyDict)

\* variant: the parameter servers are listed on the default port
ClusterPsOnDefaultPort(hs, ps_num) ==
    LET masters == SliceTo(hs, 1)
        workers == SliceFrom1(hs)
        ps == IF PsIsNone(hs, ps_num) THEN <<>> ELSE SliceTo(hs, ps_num)
    IN  ("master" :> host_addresses(masters, MasterPort))
        @@ (IF ~PsIsNone(hs, ps_num) /\ Len(ps) > 0
              THEN "ps" :> host_addresses(ps, MasterPort) ELSE EmptyDict)
        @@ (IF Len(workers) > 0
              THEN "worker" :> host_addresses(workers, MasterPort) ELSE EmptyDict)

\* variant: the worker entry is written even when there are no workers
ClusterAlwaysWorker(hs, ps_num) ==
    LET masters == SliceTo(hs, 1)
        workers == SliceFrom1(hs)
        ps == IF PsIsNone(hs, ps_num) THEN <<>> ELSE SliceTo(hs, ps_num)
    IN  ("master" :> host_addresses(masters, MasterPort))
        @@ (IF ~PsIsNone(hs, ps_num) /\ Len(ps) > 0
              THEN "ps" :> host_addresses(ps, PsPort) ELSE EmptyDict)
        @@ ("worker" :> host_addresses(workers, MasterPort))

\* tf_config["cluster"]
Cluster(hs, ps_num) ==
    LET masters == SliceTo(hs, 1)
        workers == SliceFrom1(hs)
        ps == IF PsIsNone(hs, ps_num) THEN <<>> ELSE SliceTo(hs, ps_num)
    IN  ("master" :> host_addresses(masters, MasterPort))
        @@ (IF ~PsIsNone(hs, ps_num) /\ Len(ps) > 0
              THEN "ps" :> host_addresses(ps, PsPort) ELSE EmptyDict)
        @@ (IF Len(workers) > 0
              THEN "worker" :> host_addresses(workers, MasterPort) ELSE EmptyDict)

\* variant: a host missing from its list gets index 0
_build_tf_config_DefaultIndex(hs, current_host, ps_num, ps_task) ==
    LET workers == SliceFrom1(hs)
        ps == IF PsIsNone(hs, ps_num) THEN <<>> ELSE SliceTo(hs, ps_num)
        Config(type, index) ==
            Return([cluster |-> Cluster(hs, ps_num),
                    environment |-> "cloud",
                    task |-> [index |-> index, type |-> type]])
    IN  IF ps_task
          THEN IF PsIsNone(hs, ps_num) THEN Raise(NoPsError)
               ELSE IF ~Contains(ps, current_host) THEN Config("ps", 0)
               ELSE Config("ps", ListIndex(ps, current_host))
        ELSE IF _is_host_master(hs, current_host) THEN Config("master", 0)
        ELSE IF ~Contains(workers, current_host) THEN Config("worker", 0)
        ELSE Config("worker", ListIndex(workers, current_host))

\* variant: the worker's index is its position in hosts, master included
_build_tf_config_IndexInHosts(hs, current_host, ps_num, ps_task) ==
    LET workers == SliceFrom1(hs)
        ps == IF PsIsNone(hs, ps_num) THEN <<>> ELSE SliceTo(hs, ps_num)
        Config(type, index) ==
            Return([cluster |-> Cluster(hs, ps_num),
                    environment |-> "cloud",
                    task |-> [index |-> index, type |-> type]])
    IN  IF ps_task
          THEN IF PsIsNone(hs, ps_num) THEN Raise(NoPsError)
               ELSE IF ~Contains(ps, current_host) THEN Raise(NotInListError)
               ELSE Config("ps", ListIndex(ps, current_host))
        ELSE IF _is_host_master(hs, current_host) THEN Config("master", 0)
        ELSE IF ~Contains(workers, current_host) THEN Raise(NotInListError)
        ELSE Config("worker", ListIndex(hs, current_host))

\* _build_tf_config: the returned dictionary, or the error raised
_build_tf_config(hs, current_host, ps_num, ps_task) ==
    LET workers == SliceFrom1(hs)
        ps == IF PsIsNone(hs, ps_num) THEN <<>> ELSE SliceTo(hs, ps_num)
        Config(type, index) ==
            Return([cluster |-> Cluster(hs, ps_num),
                    environment |-> "cloud",
                    task |-> [index |-> index, type |-> type]])
    IN  IF ps_task
          THEN IF PsIsNone(hs, ps_num) THEN Raise(NoPsError)
               ELSE IF ~Contains(ps, current_host) THEN Raise(NotInListError)
               ELSE Config("ps", ListIndex(ps, current_host))
        ELSE IF _is_host_master(hs, current_host) THEN Config("master", 0)
        ELSE IF ~Contains(workers, current_host) THEN Raise(NotInListError)
        ELSE Config("worker", ListIndex(workers, current_host))

\* ------------------------------------------------------------------------
\* The resolver called on its own, any number of times: any current host,
\* any ps_num, both values of ps_task, on the host list of the job.

\* variant: workers aliases hosts and the master is popped off it in place
BuildTfConfigCallPopsMaster ==
    /\ \E current_host \in HostNames \cup {Stranger},
          ps_num \in 0..MaxPsNum, ps_task \in BOOLEAN :
          LET call == [hosts |-> hosts, current_host |-> current_host,
                       ps_num |-> ps_num, ps_task |-> ps_task,
                       ret |-> _build_tf_config(hosts, current_host, ps_num, ps_task)]
          IN  history' = IF history = <<>> THEN <<call>> ELSE <<history[1], call>>
    /\ hosts' = SliceFrom1(hosts)
    /\ UNCHANGED <<parameter_server_num, pc, log>>

\* One call of _build_tf_config.  The slices hosts[:1], hosts[1:] and
\* hosts[:ps_num] are copies: the list passed in is left as it was.
BuildTfConfigCall ==
    /\ \E current_host \in HostNames \cup {Stranger},
          ps_num \in 0..MaxPsNum, ps_task \in BOOLEAN :
          LET call == [hosts |-> hosts, current_host |-> current_host,
                       ps_num |-> ps_num, ps_task |-> ps_task,
                       ret |-> _build_tf_config(hosts, current_host, ps_num, ps_task)]
          IN  history' = IF history = <<>> THEN <<call>> ELSE <<history[1], call>>
    /\ hosts' = hosts
    /\ UNCHANGED <<parameter_server_num, pc, log>>

InitResolve ==
    /\ hosts \in HostLists
    /\ parameter_server_num = 0
    /\ pc = [h \in Range(hosts) |-> "start"]
    /\ log = [h \in Range(hosts) |-> <<>>]
    /\ history = <<>>

NextResolve == BuildTfConfigCall

SpecResolve == InitResolve /\ [][NextResolve]_vars

\* ------------------------------------------------------------------------
\* The job: every host of env.hosts runs train with itself as current host.

\* env.to_env_vars(): the environment of the training runtime (abridged)
to_env_vars(h) == ("SM_CURRENT_HOST" :> h) @@ ("SM_HOSTS" :> hosts)

\* _env_vars_with_tf_config: env.to_env_vars() plus TF_CONFIG, or the error
\* _build_tf_config raised.  json.dumps(d) is kept as the dictionary d.
_env_vars_with_tf_config(h, ps_task) ==
    LET r == _build_tf_config(hosts, h, parameter_server_num, ps_task)
    IN  [error |-> r.error,
         env_vars |-> IF r.error = NoError
                        THEN ("TF_CONFIG" :> r.tf_config) @@ to_env_vars(h)
                        ELSE EmptyDict]

\* variant: the parameter servers are looked for among the workers
_should_run_ps_among_workers(hs, current_host, ps_num) ==
    Contains(SliceTo(SliceFrom1(hs), ps_num), current_host)

\* _should_run_ps_on_this_host
_should_run_ps_on_this_host(hs, current_host, ps_num) ==
    Contains(SliceTo(hs, ps_num), current_host)

\* variant: parameter servers are started whatever the number of hosts
DistributedIgnoringHostCount == parameter_server_num # 0

\* train, line 140: len(env.hosts) > 1 and parameter_server_num
Distributed == Len(hosts) > 1 /\ parameter_server_num # 0

\* Calls train makes, as they are written to log.
RunModuleCall(env_vars, wait) ==
    [op |-> "run_module", env_vars |-> env_vars, wait |-> wait]
WriteEnvVarsCall(env_vars) == [op |-> "write_env_vars", env_vars |-> env_vars]
RunCall(env_vars) == [op |-> "run", env_vars |-> env_vars]
\* the blocking call returned (ok) or raised (~ok) when the process exited
ProcessExit(ok) == [op |-> "exit", ok |-> ok]
CurlCall(master, ok) == [op |-> "curl", target |-> <<master, MasterPort>>, ok |-> ok]
SleepCall == [op |-> "sleep", seconds |-> SleepSeconds]

Logged(h, calls) == log' = [log EXCEPT ![h] = log[h] \o calls]
Goto(h, label) == pc' = [pc EXCEPT ![h] = label]

\* variant: the probe goes to the port of the master's parameter server,
\* which is open from its launch on and is never closed
MasterPsIsUp ==
    /\ Distributed
    /\ pc[hosts[1]] # "start"
    /\ ~(pc[hosts[1]] = "failed" /\ Len(log[hosts[1]]) <= 1)

\* The master's training process is the foreground process of hosts[0]; it
\* serves port 2222 while it runs.
MasterIsUp == Distributed /\ pc[hosts[1]] = "worker_running"

\* successful probes host h has made
ProbesUp(h) == Cardinality({i \in 1..Len(log[h]) :
                               log[h][i].op = "curl" /\ log[h][i].ok})

\* _run_ps: run_module(..., wait=False) installs the module and starts the
\* parameter server detached.  launched = FALSE: run_module raised.
RunPs(h, launched) ==
    /\ pc[h] = "start"
    /\ Distributed
    /\ _should_run_ps_on_this_host(hosts, h, parameter_server_num)
    /\ LET e == _env_vars_with_tf_config(h, TRUE)
       IN  IF e.error # NoError
             THEN Goto(h, "failed") /\ UNCHANGED log
             ELSE /\ Logged(h, <<RunModuleCall(e.env_vars, FALSE)>>)
                  /\ Goto(h, IF launched THEN "ps_launched" ELSE "failed")
    /\ UNCHANGED <<hosts, parameter_server_num, history>>

\* variant: the worker of a parameter-server host is started with
\* install_module=True
RunWorkerNoInstallReinstalls(h) ==
    /\ pc[h] = "ps_launched"
    /\ LET e == _env_vars_with_tf_config(h, FALSE)
       IN  IF e.error # NoError
             THEN Goto(h, "failed") /\ UNCHANGED log
             ELSE /\ Logged(h, <<RunModuleCall(e.env_vars, TRUE)>>)
                  /\ Goto(h, "worker_running")
    /\ UNCHANGED <<hosts, parameter_server_num, history>>

\* _run_worker(env, install_module=False) up to the point where
\* framework.modules.run blocks on the worker process
RunWorkerNoInstall(h) ==
    /\ pc[h] = "ps_launched"
    /\ LET e == _env_vars_with_tf_config(h, FALSE)
       IN  IF e.error # NoError
             THEN Goto(h, "failed") /\ UNCHANGED log
             ELSE /\ Logged(h, <<WriteEnvVarsCall(e.env_vars), RunCall(e.env_vars)>>)
                  /\ Goto(h, "worker_running")
    /\ UNCHANGED <<hosts, parameter_server_num, history>>

\* variant: the error of the worker process is swallowed, train goes on to
\* the poller
WorkerExitSwallowsError(h, ok) ==
    /\ pc[h] = "worker_running"
    /\ Logged(h, <<ProcessExit(ok)>>)
    /\ Goto(h, "polling")
    /\ UNCHANGED <<hosts, parameter_server_num, history>>

\* the worker process exits: framework.modules.run returns, or raises
WorkerExit(h, ok) ==
    /\ pc[h] = "worker_running"
    /\ Logged(h, <<ProcessExit(ok)>>)
    /\ Goto(h, IF ok THEN "polling" ELSE "failed")
    /\ UNCHANGED <<hosts, parameter_server_num, history>>

\* variant: the loop gives up after MaxProbes successful probes
ProbeUpWithRetryLimit(h) ==
    /\ pc[h] = "polling"
    /\ MasterIsUp
    /\ ProbesUp(h) < MaxProbes
    /\ Logged(h, <<CurlCall(hosts[1], TRUE)>>)
    /\ Goto(h, IF ProbesUp(h) + 1 >= MaxProbes THEN "done" ELSE "sleeping")
    /\ UNCHANGED <<hosts, parameter_server_num, history>>

\* variant: the loop probes again at once, without time.sleep
ProbeUpWithoutSleep(h) ==
    /\ pc[h] = "polling"
    /\ MasterIsUp
    /\ ProbesUp(h) < MaxProbes
    /\ Logged(h, <<CurlCall(hosts[1], TRUE)>>)
    /\ Goto(h, "polling")
    /\ UNCHANGED <<hosts, parameter_server_num, history>>

\* _wait_until_master_is_down: curl succeeds, the master is still up
ProbeUp(h) ==
    /\ pc[h] = "polling"
    /\ MasterIsUp
    /\ ProbesUp(h) < MaxProbes
    /\ Logged(h, <<CurlCall(hosts[1], TRUE)>>)
    /\ Goto(h, "sleeping")
    /\ UNCHANGED <<hosts, parameter_server_num, history>>

\* time.sleep(10) returns, the loop goes round
Sleep(h) ==
    /\ pc[h] = "sleeping"
    /\ Logged(h, <<SleepCall>>)
    /\ Goto(h, "polling")
    /\ UNCHANGED <<hosts, parameter_server_num, history>>

\* variant: a failed curl is retried after the sleep, like a successful one
ProbeDownRetries(h) ==
    /\ pc[h] = "polling"
    /\ ~MasterIsUp
    /\ Logged(h, <<CurlCall(hosts[1], FALSE)>>)
    /\ Goto(h, "sleeping")
    /\ UNCHANGED <<hosts, parameter_server_num, history>>

\* _wait_until_master_is_down: curl fails (CalledProcessError), return
ProbeDown(h) ==
    /\ pc[h] = "polling"
    /\ ~MasterIsUp
    /\ Logged(h, <<CurlCall(hosts[1], FALSE)>>)
    /\ Goto(h, "done")
    /\ UNCHANGED <<hosts, parameter_server_num, history>>

\* variant: a resolver error is swallowed and the worker is launched with
\* the plain environment
RunWorkerInstallIgnoresError(h) ==
    /\ pc[h] = "start"
    /\ Distributed
    /\ ~_should_run_ps_on_this_host(hosts, h, parameter_server_num)
    /\ LET e == _env_vars_with_tf_config(h, FALSE)
       IN  IF e.error # NoError
             THEN /\ Logged(h, <<RunModuleCall(to_env_vars(h), TRUE)>>)
                  /\ Goto(h, "module_running")
             ELSE /\ Logged(h, <<RunModuleCall(e.env_vars, TRUE)>>)
                  /\ Goto(h, "module_running")
    /\ UNCHANGED <<hosts, parameter_server_num, history>>

\* variant: the worker of a host without parameter server is started with
\* install_module=False
RunWorkerInstallSkipsInstall(h) ==
    /\ pc[h] = "start"
    /\ Distributed
    /\ ~_should_run_ps_on_this_host(hosts, h, parameter_server_num)
    /\ LET e == _env_vars_with_tf_config(h, FALSE)
       IN  IF e.error # NoError
             THEN Goto(h, "failed") /\ UNCHANGED log
             ELSE /\ Logged(h, <<WriteEnvVarsCall(e.env_vars), RunCall(e.env_vars)>>)
                  /\ Goto(h, "module_running")
    /\ UNCHANGED <<hosts, parameter_server_num, history>>

\* _run_worker(env, install_module=True) on a host without parameter server,
\* up to the point where run_module blocks on the process
RunWorkerInstall(h) ==
    /\ pc[h] = "start"
    /\ Distributed
    /\ ~_should_run_ps_on_this_host(hosts, h, parameter_server_num)
    /\ LET e == _env_vars_with_tf_config(h, FALSE)
       IN  IF e.error # NoError
             THEN Goto(h, "failed") /\ UNCHANGED log
             ELSE /\ Logged(h, <<RunModuleCall(e.env_vars, TRUE)>>)
                  /\ Goto(h, "module_running")
    /\ UNCHANGED <<hosts, parameter_server_num, history>>

\* variant: the only launch is handed _env_vars_with_tf_config(env, False)
RunModuleOnlyWithTfConfig(h) ==
    /\ pc[h] = "start"
    /\ ~Distributed
    /\ LET e == _env_vars_with_tf_config(h, FALSE)
       IN  IF e.error # NoError
             THEN Goto(h, "failed") /\ UNCHANGED log
             ELSE /\ Logged(h, <<RunModuleCall(e.env_vars, TRUE)>>)
                  /\ Goto(h, "module_running")
    /\ UNCHANGED <<hosts, parameter_server_num, history>>

\* train, lines 153-155: one host or no parameter servers
RunModuleOnly(h) ==
    /\ pc[h] = "start"
    /\ ~Distributed
    /\ Logged(h, <<RunModuleCall(to_env_vars(h), TRUE)>>)
    /\ Goto(h, "module_running")
    /\ UNCHANGED <<hosts, parameter_server_num, history>>

\* the process run_module waits for exits: run_module returns, or raises
ModuleExit(h, ok) ==
    /\ pc[h] = "module_running"
    /\ Logged(h, <<ProcessExit(ok)>>)
    /\ Goto(h, IF ok THEN "done" ELSE "failed")
    /\ UNCHANGED <<hosts, parameter_server_num, history>>

Init ==
    /\ hosts \in JobHostLists
    /\ parameter_server_num \in 0..MaxPsNum
    /\ pc = [h \in Range(hosts) |-> "start"]
    /\ log = [h \in Range(hosts) |-> <<>>]
    /\ history = <<>>

\* every container of the job takes the steps of train
Next ==
    \/ \E h \in DOMAIN pc, launched \in BOOLEAN : RunPs(h, launched)
    \/ \E h \in DOMAIN pc : RunWorkerNoInstall(h)
    \/ \E h \in DOMAIN pc, ok \in BOOLEAN : WorkerExit(h, ok)
    \/ \E h \in DOMAIN pc : ProbeUp(h)
    \/ \E h \in DOMAIN pc : Sleep(h)
    \/ \E h \in DOMAIN pc : ProbeDown(h)
    \/ \E h \in DOMAIN pc : RunWorkerInstall(h)
    \/ \E h \in DOMAIN pc : RunModuleOnly(h)
    \/ \E h \in DOMAIN pc, ok \in BOOLEAN : ModuleExit(h, ok)

Spec == Init /\ [][Next]_vars

\* a step of train on container h
HostStep(h) ==
    /\ h \in DOMAIN pc
    /\ \/ \E launched \in BOOLEAN : RunPs(h, launched)
       \/ RunWorkerNoInstall(h)
       \/ \E ok \in BOOLEAN : WorkerExit(h, ok)
       \/ ProbeUp(h)
       \/ Sleep(h)
       \/ ProbeDown(h)
       \/ RunWorkerInstall(h)
       \/ RunModuleOnly(h)
       \/ \E ok \in BOOLEAN : ModuleExit(h, ok)

\* The job when no container is starved: train takes its next step, the
\* process a blocking call waits for exits, a probe or a sleep that can
\* end does end.
FairSpec == Init /\ [][Next]_vars /\ \A h \in HostNames : WF_vars(HostStep(h))

\* The job with one more container, whose env.current_host is in no host
\* list of the job: it runs train like the others.
InitMisconfigured ==
    /\ hosts \in JobHostLists
    /\ parameter_server_num \in 0..MaxPsNum
    /\ pc = [h \in Range(hosts) \cup {Stranger} |-> "start"]
    /\ log = [h \in Range(hosts) \cup {Stranger} |-> <<>>]
    /\ history = <<>>

SpecMisconfigured == InitMisconfigured /\ [][Next]_vars

\* ========================================================================
\* Properties of the resolver, checked under SpecResolve.

Returned(c) == c.ret.error = NoError

\* C3: with more than one unique host and 1 <= psCount <= len(hosts), the
\* descriptor lists master = [hosts[0]:2222], worker = hosts[1:] on 2222 and
\* ps = hosts[0:psCount] on 2223, each in host-list order, and a ps resolve
\* for the host at position i < psCount is task ps with index i.
C3_DescriptorWithPs ==
    \A c \in Range(history) :
        LET hs == c.hosts
            n == Len(hs)
            k == c.ps_num
        IN  (n > 1 /\ 1 <= k /\ k <= n) =>
              /\ Returned(c) =>
                    LET cl == c.ret.tf_config.cluster
                    IN  /\ DOMAIN cl = {"master", "ps", "worker"}
                        /\ cl["master"] = << <<hs[1], 2222>> >>
                        /\ cl["worker"] = [i \in 1..(n - 1) |-> <<hs[i + 1], 2222>>]
                        /\ cl["ps"] = [i \in 1..k |-> <<hs[i], 2223>>]
              /\ \A i \in 1..k :
                    (c.ps_task /\ c.current_host = hs[i]) =>
                        /\ Returned(c)
                        /\ c.ret.tf_config.task = [index |-> i - 1, type |-> "ps"]

\* hosts = [a, b, c], psCount = 2, ps resolve for b: ps/1
C3_Witness ==
    \E c \in Range(history) :
        /\ c.hosts = <<"a", "b", "c">> /\ c.ps_num = 2
        /\ c.ps_task /\ c.current_host = "b"
        /\ Returned(c)
        /\ c.ret.tf_config.task = [index |-> 1, type |-> "ps"]
        /\ c.ret.tf_config.cluster["ps"] = << <<"a", 2223>>, <<"b", 2223>> >>

\* C4: a ps resolve with psCount = 0 or a single host fails with the
\* configuration error and returns no descriptor, whatever the current
\* host, hosts[0] included.
C4_PsTaskWithoutPsFails ==
    \A c \in Range(history) :
        (c.ps_task /\ (c.ps_num = 0 \/ Len(c.hosts) = 1)) =>
            /\ c.ret.error = NoPsError
            /\ c.ret.tf_config = EmptyDict

\* a single host asks for the ps role with psCount > 0, as hosts[0]
C4_Witness ==
    \E c \in Range(history) :
        /\ c.ps_task /\ Len(c.hosts) = 1 /\ c.ps_num > 0
        /\ c.current_host = c.hosts[1]
        /\ c.ret.error = NoPsError

\* C5: a non-ps resolve for hosts[0] is master/0 whatever psCount is, for
\* hosts[i], i >= 1, it is worker/(i-1), and with psCount = 0 the
\* descriptor has no ps key.
C5_MasterAndWorkerTasks ==
    \A c \in Range(history) :
        ~c.ps_task =>
            /\ c.current_host = c.hosts[1] =>
                  /\ Returned(c)
                  /\ c.ret.tf_config.task = [index |-> 0, type |-> "master"]
            /\ \A i \in 2..Len(c.hosts) :
                  c.current_host = c.hosts[i] =>
                      /\ Returned(c)
                      /\ c.ret.tf_config.task = [index |-> i - 2, type |-> "worker"]
            /\ (Returned(c) /\ c.ps_num = 0) =>
                  "ps" \notin DOMAIN c.ret.tf_config.cluster

\* hosts = [a, b, c], psCount = 0, current host c: worker/1, no ps key
C5_Witness ==
    \E c \in Range(history) :
        /\ c.hosts = <<"a", "b", "c">> /\ c.ps_num = 0
        /\ ~c.ps_task /\ c.current_host = "c"
        /\ Returned(c)
        /\ c.ret.tf_config.task = [index |-> 1, type |-> "worker"]
        /\ DOMAIN c.ret.tf_config.cluster = {"master", "worker"}

\* C6: for a host list of length 1 and any psCount, the cluster mapping has
\* the one key master with the one endpoint hosts[0]:2222.
C6_SingleHostCluster ==
    \A c \in Range(history) :
        Len(c.hosts) = 1 =>
            /\ (~c.ps_task /\ c.current_host = c.hosts[1]) => Returned(c)
            /\ Returned(c) =>
                  /\ DOMAIN c.ret.tf_config.cluster = {"master"}
                  /\ c.ret.tf_config.cluster["master"] = << <<c.hosts[1], 2222>> >>

\* one host, psCount larger than 1, a descriptor was returned
C6_Witness ==
    \E c \in Range(history) :
        /\ Len(c.hosts) = 1 /\ c.ps_num > 1
        /\ Returned(c)
        /\ c.ret.tf_config.cluster = [master |-> << <<c.hosts[1], 2222>> >>]

SameArguments(c, d) ==
    /\ c.hosts = d.hosts
    /\ c.current_host = d.current_host
    /\ c.ps_num = d.ps_num
    /\ c.ps_task = d.ps_task

IsPsHost(h) ==
    /\ Len(hosts) > 1
    /\ parameter_server_num > 0
    /\ \E i \in 1..Len(hosts) : i <= parameter_server_num /\ hosts[i] = h

\* the probes and sleeps of host h, in the order they were made
PollEvents(h) == SelectSeq(log[h], LAMBDA e : e.op \in {"curl", "sleep"})

\* C1: on a parameter-server host train makes its calls in this order and
\* no others: the detached installing launch of the parameter server, the
\* worker without install (write_env_vars, run), whose exit it waits for,
\* then probes of hosts[0]:2222 and sleeps only; it returns only after a
\* probe has failed.
C1_PsHostOrder ==
    \A h \in Range(hosts) :
        IsPsHost(h) =>
            LET L == log[h]
            IN  /\ Len(L) >= 1 =>
                      /\ L[1].op = "run_module"
                      /\ L[1].wait = FALSE
                      /\ L[1].env_vars["TF_CONFIG"].task.type = "ps"
                /\ Len(L) >= 2 =>
                      /\ L[2].op = "write_env_vars"
                      /\ L[2].env_vars["TF_CONFIG"].task.type \in {"master", "worker"}
                /\ Len(L) >= 3 =>
                      /\ L[3].op = "run"
                      /\ L[3].env_vars = L[2].env_vars
                /\ Len(L) >= 4 => L[4].op = "exit"
                /\ Len(L) >= 5 => L[4].ok
                /\ \A i \in 5..Len(L) :
                      /\ L[i].op \in {"curl", "sleep"}
                      /\ L[i].op = "curl" => L[i].target = <<hosts[1], 2222>>
                /\ pc[h] \in {"polling", "sleeping"} => Len(L) >= 4
                /\ pc[h] = "done" =>
                      /\ Len(L) >= 5
                      /\ L[Len(L)].op = "curl"
                      /\ ~L[Len(L)].ok

\* a parameter-server host other than the master has returned from train
\* after a successful probe, a sleep and a failed probe
C1_Witness ==
    \E h \in Range(hosts) :
        /\ IsPsHost(h)
        /\ h # hosts[1]
        /\ pc[h] = "done"
        /\ Len(log[h]) >= 7

\* C2: a poller that sees N successful probes and then a failed one makes
\* N + 1 probes and N sleeps of 10 seconds, one after each successful probe
\* and none after the failed one, and returns; with N = 0 it returns on the
\* first probe without sleeping.
C2_ProbesAndSleeps ==
    \A h \in Range(hosts) :
        LET P == PollEvents(h)
            N == Cardinality({i \in 1..Len(P) : P[i].op = "curl" /\ P[i].ok})
        IN  /\ \A i \in 1..Len(P) :
                  IF i % 2 = 1
                    THEN /\ P[i].op = "curl"
                         /\ ~P[i].ok => (i = Len(P) /\ pc[h] = "done")
                    ELSE /\ P[i] = [op |-> "sleep", seconds |-> 10]
                         /\ P[i - 1].ok
            /\ (pc[h] = "done" /\ Len(P) > 0) =>
                  /\ Len(P) = 2 * N + 1
                  /\ ~P[Len(P)].ok
                  /\ Cardinality({i \in 1..Len(P) : P[i].op = "curl"}) = N + 1
                  /\ Cardinality({i \in 1..Len(P) : P[i].op = "sleep"}) = N
            /\ pc[h] = "polling" => Len(P) = 2 * N
            /\ pc[h] = "sleeping" => Len(P) = 2 * N - 1

\* a poller has returned after MaxProbes successful probes
C2_Witness ==
    \E h \in Range(hosts) :
        /\ pc[h] = "done"
        /\ ProbesUp(h) = MaxProbes
        /\ Len(PollEvents(h)) = 2 * MaxProbes + 1

\* C7: with one host or psCount = 0 train makes exactly one launch, a
\* blocking run_module; it starts no parameter server, never polls, and
\* ends when that process exits.
C7_SingleLaunch ==
    (Len(hosts) = 1 \/ parameter_server_num = 0) =>
        \A h \in Range(hosts) :
            LET L == log[h]
            IN  /\ pc[h] \in {"start", "module_running", "done", "failed"}
                /\ Len(L) <= 2
                /\ Len(L) >= 1 => (L[1].op = "run_module" /\ L[1].wait = TRUE)
                /\ Len(L) = 2 => L[2].op = "exit"
                /\ pc[h] = "start" <=> Len(L) = 0
                /\ pc[h] = "module_running" <=> Len(L) = 1
                /\ pc[h] = "done" => L[2].ok
                /\ pc[h] = "failed" => ~L[2].ok

\* the sole host of a job, with psCount > 0, has returned from train
C7_Witness ==
    /\ Len(hosts) = 1
    /\ parameter_server_num > 0
    /\ pc[hosts[1]] = "done"
    /\ Len(log[hosts[1]]) = 2

\* C8 as stated: with one host or psCount = 0 the process train launches is
\* handed the cluster descriptor resolved for the current host.
C8_LaunchCarriesDescriptor ==
    (Len(hosts) = 1 \/ parameter_server_num = 0) =>
        \A h \in Range(hosts) :
            Len(log[h]) >= 1 =>
                /\ "TF_CONFIG" \in DOMAIN log[h][1].env_vars
                /\ log[h][1].env_vars["TF_CONFIG"] =
                      _build_tf_config(hosts, h, parameter_server_num, FALSE).tf_config

\* C8 as amended: with one host or psCount = 0 train does not resolve the
\* topology; the process it launches is handed env.to_env_vars() as it is,
\* without TF_CONFIG.
C8_LaunchWithoutDescriptor ==
    (Len(hosts) = 1 \/ parameter_server_num = 0) =>
        \A h \in Range(hosts) :
            Len(log[h]) >= 1 =>
                /\ "TF_CONFIG" \notin DOMAIN log[h][1].env_vars
                /\ log[h][1].env_vars =
                      ("SM_CURRENT_HOST" :> h) @@ ("SM_HOSTS" :> hosts)

\* hosts = [a, b, c], psCount = 0: host c has made its launch
C8_Witness ==
    /\ hosts = <<"a", "b", "c">>
    /\ parameter_server_num = 0
    /\ Len(log["c"]) >= 1
    /\ log["c"][1].op = "run_module"
    /\ "TF_CONFIG" \notin DOMAIN log["c"][1].env_vars

\* the training process of the master has run and exited
MasterTrainingExited ==
    \E i \in 1..Len(log[hosts[1]]) : log[hosts[1]][i].op = "exit"

\* C10: no parameter-server host returns from train before the training
\* process of the master has started and exited.
C10_PsHostWaitsForMaster ==
    \A h \in Range(hosts) :
        (IsPsHost(h) /\ pc[h] = "done") => MasterTrainingExited

\* train on hosts[0] ended with the failed launch of its parameter server:
\* the training process of the master never ran, port 2222 of the master
\* was never open and never will be.
MasterNeverAccessible ==
    /\ pc[hosts[1]] = "failed"
    /\ \A i \in 1..Len(log[hosts[1]]) : log[hosts[1]][i].op # "run"

C12_OnlyFailedProbeEndsPoll ==
    [][\A h \in Range(hosts) :
          /\ (pc[h] \in {"polling", "sleeping"} /\ pc'[h] = "done") =>
                /\ pc[h] = "polling"
                /\ log'[h] = Append(log[h], [op |-> "curl",
                                             target |-> <<hosts[1], 2222>>,
                                             ok |-> FALSE])
          /\ (pc[h] = "polling" /\ pc'[h] # pc[h]) =>
                /\ pc'[h] \in {"sleeping", "done"}
                /\ pc'[h] = "sleeping" <=>
                      log'[h] = Append(log[h], [op |-> "curl",
                                                target |-> <<hosts[1], 2222>>,
                                                ok |-> TRUE])
          /\ (pc[h] = "polling" /\ MasterIsUp) => pc'[h] # "done"
          /\ (pc[h] = "sleeping" /\ pc'[h] # pc[h]) =>
                /\ pc'[h] = "polling"
                /\ log'[h] = Append(log[h], [op |-> "sleep", seconds |-> 10])
      ]_vars

\* after MaxProbes successful probes and as many sleeps a poller is about
\* to probe again
C12_Witness ==
    \E h \in Range(hosts) :
        /\ pc[h] = "polling"
        /\ ProbesUp(h) = MaxProbes
        /\ Len(PollEvents(h)) = 2 * MaxProbes

\* positions in the log of host h of the calls with the given op
CallsOf(h, op) == {i \in 1..Len(log[h]) : log[h][i].op = op}

\* C13: a train that has returned installed the module exactly once, with
\* its first call, before every run without install: on a parameter-server
\* host the detached ps launch installs and the worker is write_env_vars +
\* run; on a pure worker host the one blocking run_module installs and
\* there is no ps launch and no poll; without parameter servers the sole
\* launch installs.
C13_InstallOnce ==
    \A h \in Range(hosts) :
        LET L == log[h]
        IN  /\ Cardinality(CallsOf(h, "run_module")) <= 1
            /\ \A i \in CallsOf(h, "run") \cup CallsOf(h, "write_env_vars") :
                  \E j \in CallsOf(h, "run_module") : j < i
            /\ pc[h] = "done" =>
                  /\ CallsOf(h, "run_module") = {1}
                  /\ IF IsPsHost(h)
                       THEN /\ L[1].wait = FALSE
                            /\ CallsOf(h, "write_env_vars") = {2}
                            /\ CallsOf(h, "run") = {3}
                       ELSE /\ L[1].wait = TRUE
                            /\ Len(L) = 2
                            /\ L[2] = [op |-> "exit", ok |-> TRUE]
                  /\ (Len(hosts) > 1 /\ parameter_server_num > 0 /\ ~IsPsHost(h)) =>
                        L[1].env_vars["TF_CONFIG"].task.type = "worker"

\* in one job a pure worker host and a parameter-server host have returned
C13_Witness ==
    /\ \E h \in Range(hosts) :
          /\ Len(hosts) > 1 /\ parameter_server_num > 0 /\ ~IsPsHost(h)
          /\ pc[h] = "done"
    /\ \E g \in Range(hosts) : IsPsHost(g) /\ pc[g] = "done"

\* ========================================================================
\* Properties of train on a misconfigured container, checked under
\* SpecMisconfigured.

\* a resolve that train makes for container h in a distributed job fails
ResolveFails(h) ==
    /\ Len(hosts) > 1
    /\ parameter_server_num > 0
    /\ \/ _build_tf_config(hosts, h, parameter_server_num, FALSE).error # NoError
       \/ /\ \E i \in 1..Len(hosts) : i <= parameter_server_num /\ hosts[i] = h
          /\ _build_tf_config(hosts, h, parameter_server_num, TRUE).error # NoError

\* C14: when the resolve for a launch fails, train ends with that error:
\* the launch is not made, nothing is launched or probed afterwards, and
\* train does not go on.
C14_ConfigErrorStopsTrain ==
    \A h \in DOMAIN pc :
        ResolveFails(h) =>
            /\ log[h] = <<>>
            /\ pc[h] \in {"start", "failed"}
            /\ pc[h] = "start" => ENABLED RunWorkerInstall(h)

\* in a distributed job train has failed on the container whose current
\* host is not in the host list, while a host of the job has launched
C14_Witness ==
    /\ Len(hosts) > 1
    /\ parameter_server_num > 0
    /\ pc[Stranger] = "failed"
    /\ log[Stranger] = <<>>
    /\ \E h \in Range(hosts) : Len(log[h]) > 0

\* ========================================================================
\* Further properties of train, checked under Spec.

\* C15: a failed launch ends train with the error: a launch whose process
\* fails leaves train failed; a failed train has made no call after the
\* failing launch (a failed ps launch is its only call, a failed worker or
\* sole launch is followed by no probe), and it makes none later.
C15_LaunchErrorStopsTrain ==
    [][\A h \in Range(hosts) :
          /\ pc[h] = "failed" => (pc'[h] = "failed" /\ log'[h] = log[h])
          /\ (/\ Len(log'[h]) = Len(log[h]) + 1
              /\ log'[h][Len(log'[h])] = [op |-> "exit", ok |-> FALSE])
                => pc'[h] = "failed"
          /\ pc'[h] = "failed" =>
                LET L == log'[h]
                IN  /\ Len(L) >= 1
                    /\ \A i \in 1..Len(L) : L[i].op \notin {"curl", "sleep"}
                    /\ \/ /\ Len(L) = 1
                          /\ L[1].op = "run_module"
                          /\ L[1].wait = FALSE
                       \/ /\ L[Len(L)] = [op |-> "exit", ok |-> FALSE]
                          /\ \A i \in 1..(Len(L) - 1) : L[i].op # "exit"
      ]_vars

\* in one job train has failed on one host with the ps launch and on
\* another with the worker launch
C15_Witness ==
    /\ \E h \in Range(hosts) : pc[h] = "failed" /\ Len(log[h]) = 1
    /\ \E h \in Range(hosts) :
          /\ pc[h] = "failed"
          /\ Len(log[h]) = 4
          /\ log[h][3].op = "run"
          /\ log[h][4] = [op |-> "exit", ok |-> FALSE]

\* C16: with more than one host and psCount > len(hosts) the ps list is all
\* hosts on port 2223, no resolve fails, the ps resolve for the host at
\* position i is ps/i, and train starts a parameter server on every host.
C16_PsCountClamped ==
    (Len(hosts) > 1 /\ parameter_server_num > Len(hosts)) =>
        \A i \in 1..Len(hosts) :
            LET h == hosts[i]
                L == log[h]
                r == _build_tf_config(hosts, h, parameter_server_num, TRUE)
                all == [j \in 1..Len(hosts) |-> <<hosts[j], 2223>>]
            IN  /\ r.error = NoError
                /\ r.tf_config.task = [index |-> i - 1, type |-> "ps"]
                /\ r.tf_config.cluster["ps"] = all
                /\ pc[h] # "module_running"
                /\ pc[h] # "start" =>
                      /\ Len(L) >= 1
                      /\ L[1].op = "run_module"
                      /\ L[1].wait = FALSE
                      /\ L[1].env_vars["TF_CONFIG"].task = [index |-> i - 1, type |-> "ps"]
                      /\ L[1].env_vars["TF_CONFIG"].cluster["ps"] = all
                      /\ Len(L[1].env_vars["TF_CONFIG"].cluster["ps"]) = Len(hosts)

\* psCount exceeds the number of hosts and train has returned on every
\* host of the job, each after its parameter-server launch
C16_Witness ==
    /\ Len(hosts) > 1
    /\ parameter_server_num > Len(hosts)
    /\ \A h \in Range(hosts) :
          /\ pc[h] = "done"
          /\ log[h][1].env_vars["TF_CONFIG"].task.type = "ps"

\* ========================================================================
\* Further properties of the resolver, checked under SpecResolve.

\* C17: a ps resolve with an existing ps group for a host that is not among
\* the first psCount hosts, and a non-ps resolve for a host that is not in
\* the host list, fail with the index error of the list and return no
\* descriptor; no index is made up.
C17_MissingHostFails ==
    \A c \in Range(history) :
        LET n == Len(c.hosts)
            k == IF c.ps_num < n THEN c.ps_num ELSE n
        IN  /\ (/\ c.ps_task
                /\ n > 1 /\ c.ps_num > 0
                /\ \A i \in 1..k : c.hosts[i] # c.current_host) =>
                    /\ c.ret.error = NotInListError
                    /\ c.ret.tf_config = EmptyDict
            /\ (/\ ~c.ps_task
                /\ \A i \in 1..n : c.hosts[i] # c.current_host) =>
                    /\ c.ret.error = NotInListError
                    /\ c.ret.tf_config = EmptyDict

\* hosts = [a, b, c], psCount = 2: the ps resolve for c has failed, and so
\* has an earlier non-ps resolve for a host outside the list
C17_Witness ==
    /\ Len(history) = 2
    /\ ~history[1].ps_task
    /\ history[1].current_host = Stranger
    /\ history[1].ret.error = NotInListError
    /\ history[2].hosts = <<"a", "b", "c">>
    /\ history[2].ps_num = 2
    /\ history[2].ps_task
    /\ history[2].current_host = "c"
    /\ history[2].ret.error = NotInListError

\* ========================================================================
\* Properties of train together with the resolver, checked under Spec.

\* C18: on the hosts of the job train never fails on a resolve, and it
\* starts a parameter server on a host exactly when host:2223 is in the ps
\* list of the job's descriptor; in a distributed job hosts[0] starts one
\* and exactly the hosts at positions >= psCount take the pure-worker path.
C18_DispatcherAgreesWithResolver ==
    \A i \in 1..Len(hosts) :
        LET h == hosts[i]
            L == log[h]
            r == _build_tf_config(hosts, h, parameter_server_num, FALSE)
            cl == r.tf_config.cluster
            inPsList == /\ "ps" \in DOMAIN cl
                        /\ \E j \in 1..Len(cl["ps"]) : cl["ps"][j] = <<h, 2223>>
            distributed == Len(hosts) > 1 /\ parameter_server_num > 0
        IN  /\ r.error = NoError
            /\ inPsList =>
                  _build_tf_config(hosts, h, parameter_server_num, TRUE).error = NoError
            /\ pc[h] = "failed" => Len(L) >= 1
            /\ pc[h] # "start" =>
                  /\ Len(L) >= 1
                  /\ L[1].op = "run_module"
                  /\ L[1].wait = FALSE <=> inPsList
                  /\ (distributed /\ i = 1) => L[1].wait = FALSE
                  /\ distributed =>
                        ((L[1].wait /\ L[1].env_vars["TF_CONFIG"].task.type = "worker")
                            <=> i > parameter_server_num)

\* hosts of length 3 with psCount = 2: the first two hosts have started a
\* parameter server, the third has taken the pure-worker path
C18_Witness ==
    /\ Len(hosts) = 3
    /\ parameter_server_num = 2
    /\ \A i \in 1..2 : Len(log[hosts[i]]) >= 1 /\ log[hosts[i]][1].wait = FALSE
    /\ Len(log[hosts[3]]) >= 1
    /\ log[hosts[3]][1].wait = TRUE

\* the launches of the job that were handed a TF_CONFIG: host and position
\* in its log
Launches ==
    {x \in UNION {{<<h, i>> : i \in 1..Len(log[h])} : h \in Range(hosts)} :
        /\ log[x[1]][x[2]].op \in {"run_module", "run"}
        /\ "TF_CONFIG" \in DOMAIN log[x[1]][x[2]].env_vars}

TfConfigOf(x) == log[x[1]][x[2]].env_vars["TF_CONFIG"]

\* the task of the descriptor d points at the endpoint of host h
PointsAt(d, h) ==
    /\ d.task.type \in DOMAIN d.cluster
    /\ d.task.index + 1 \in 1..Len(d.cluster[d.task.type])
    /\ d.cluster[d.task.type][d.task.index + 1] =
          <<h, IF d.task.type = "ps" THEN 2223 ELSE 2222>>

\* C19: every descriptor returned for a host of the job points, with its
\* task, at that host's own endpoint; the processes launched in the job
\* have pairwise distinct tasks and one and the same cluster mapping, and
\* once every host has made its launches each endpoint of the mapping is
\* the task of exactly one launched process.
C19_TaskPointsAtOwnEndpoint ==
    /\ \A h \in Range(hosts), n \in 0..MaxPsNum, t \in BOOLEAN :
          LET r == _build_tf_config(hosts, h, n, t)
          IN  r.error = NoError => PointsAt(r.tf_config, h)
    /\ \A x \in Launches : PointsAt(TfConfigOf(x), x[1])
    /\ \A x, y \in Launches :
          /\ TfConfigOf(x).cluster = TfConfigOf(y).cluster
          /\ x # y => TfConfigOf(x).task # TfConfigOf(y).task
    /\ (/\ Len(hosts) > 1 /\ parameter_server_num > 0
        /\ \A h \in Range(hosts) :
              Cardinality({x \in Launches : x[1] = h}) = IF IsPsHost(h) THEN 2 ELSE 1) =>
          LET cl == Cluster(hosts, parameter_server_num)
          IN  \A type \in DOMAIN cl :
                  \A j \in 1..Len(cl[type]) :
                      Cardinality({x \in Launches :
                          /\ TfConfigOf(x).task = [index |-> j - 1, type |-> type]
                          /\ <<x[1], IF type = "ps" THEN 2223 ELSE 2222>> = cl[type][j]}) = 1

\* hosts of length 3 with psCount = 2: all five processes of the job have
\* been launched
C19_Witness ==
    /\ Len(hosts) = 3
    /\ parameter_server_num = 2
    /\ Cardinality(Launches) = 5

\* ========================================================================
\* Termination of train, checked under FairSpec.

\* C20: in a distributed job with parameter servers train comes to its end
\* on every host (it returns, or it raises the error of its own failed
\* launch): no parameter-server host waits for another one, and hosts[0]
\* gets out of the poll of its own port.
C20_TrainEndsOnEveryHost ==
    (Len(hosts) > 1 /\ parameter_server_num > 0) =>
        <>(\A h \in Range(hosts) : pc[h] \in {"done", "failed"})

\* a job of three parameter-server hosts in which train has returned on
\* every host, on hosts[0] after polling its own port once
C20_Witness ==
    /\ Len(hosts) = 3
    /\ parameter_server_num >= 3
    /\ \A h \in Range(hosts) : pc[h] = "done"
    /\ Len(PollEvents(hosts[1])) = 1
    /\ \E h \in Range(hosts) : ProbesUp(h) >= 1

====
